---- MODULE Spec2Model ----
(***************************************************************************)
(* Response extraction of the Career Catalyst backend (backend/main.py):   *)
(* the response-processing step of optimize_career and the regex based     *)
(* manual_save_fallback.                                                   *)
(*                                                                         *)
(* A Python str is a sequence of tokens.  "#", " ", "\n" and "x" are       *)
(* single characters, and BT stands for the single character U+0060, the   *)
(* backquote, which a TLA+ string cannot hold.  "Tailored Resume",         *)
(* "TAILORED RESUME", "Cover Letter" and "markdown" are words whose        *)
(* letters occur nowhere else, so matching a regular expression on tokens  *)
(* is matching it on characters.  The model reply is a list of parts, as   *)
(* in the client library: function call parts (response.function_calls)    *)
(* and text parts, whose concatenation is response.text (None when there   *)
(* is no text part).                                                       *)
(***************************************************************************)
EXTENDS Integers, Sequences, FiniteSets, TLC

VARIABLES function_calls, text_parts, pc, tool_calls_found, fallback_called,
          fallback_data, final_output

vars == <<function_calls, text_parts, pc, tool_calls_found, fallback_called,
          fallback_data, final_output>>

\* ---------------------------------------------------------------- bounds
MaxParts == 5

\* ------------------------------------------------------------ vocabulary
\* the backquote character U+0060
BT == "BACKQUOTE"

Tokens == {"#", " ", "\n", "x", BT, "markdown",
           "Tailored Resume", "TAILORED RESUME", "Cover Letter"}

HdrTR == <<"#", "#", " ", "Tailored Resume", "\n">>
HdrCL == <<"#", "#", " ", "Cover Letter", "\n">>
Fence == <<BT, BT, BT>>
FenceOpenMd == <<BT, BT, BT, "markdown", "\n">>

\* text parts the model may emit; response.text is their concatenation
\* (an untagged opening fence is Fence followed by the part "\n")
Segments == {HdrTR, HdrCL, FenceOpenMd, Fence, <<"x">>, <<"\n">>, <<"#">>}

ToolNames == {"save_tailored_resume", "save_cover_letter", "other"}
Contents == {<<>>, <<"x">>}

\* function call parts the model may emit; a call of another name is
\* skipped by the loop whatever its content, so one content stands for it
Calls == {c \in [name : ToolNames, content : Contents] :
            c.name = "other" => c.content # <<>>}

\* ------------------------------------------------------- string helpers
RECURSIVE Concat(_)
Concat(ss) == IF ss = <<>> THEN <<>> ELSE Head(ss) \o Concat(Tail(ss))

Min(S) == CHOOSE m \in S : \A n \in S : m <= n
Max(S) == CHOOSE m \in S : \A n \in S : m >= n

\* str.isspace / \s on the characters of the vocabulary
IsSpace(c) == c \in {" ", "\n"}

\* re.IGNORECASE: case folding of a token
Lower(c) == CASE c = "Tailored Resume" -> "tailored resume"
              [] c = "TAILORED RESUME" -> "tailored resume"
              [] c = "Cover Letter" -> "cover letter"
              [] OTHER -> c

\* str.strip()
Strip(s) ==
  LET ns == {i \in 1..Len(s) : ~IsSpace(s[i])}
  IN IF ns = {} THEN <<>> ELSE SubSeq(s, Min(ns), Max(ns))

\* `not s` for a str
IsFalsy(s) == s = <<>>

\* ---------------------------------------------------------------- regex
\* $ without re.MULTILINE: at the end, or before a newline that ends the text
AtEnd(t, e) == e = Len(t) + 1 \/ (e = Len(t) /\ t[e] = "\n")

\* the lookahead at position e: (?=\n##|$) of the resume pattern,
\* (?=$) of the cover letter pattern
Lookahead(t, e, title) ==
  \/ /\ title = "Tailored Resume"
     /\ e + 2 <= Len(t) /\ t[e] = "\n" /\ t[e+1] = "#" /\ t[e+2] = "#"
  \/ AtEnd(t, e)

\* first index >= i that is not whitespace (Len(t)+1 when there is none)
SkipSpace(t, i) == Min({k \in i..(Len(t) + 1) : k = Len(t) + 1 \/ ~IsSpace(t[k])})

\* ##\s*<title>\s*\n tried at position s: the index where group 1 starts,
\* 0 when the prefix does not match.  The greedy \s* before \n gives up
\* characters until the one after it is a newline, which is the last
\* newline of the whitespace run.
HeaderAt(t, s, title) ==
  IF ~(s + 1 <= Len(t) /\ t[s] = "#" /\ t[s+1] = "#") THEN 0
  ELSE LET j == SkipSpace(t, s + 2)
       IN IF j > Len(t) \/ Lower(t[j]) # Lower(title) THEN 0
          ELSE LET k == SkipSpace(t, j + 1)
                   nl == {m \in (j+1)..(k-1) : t[m] = "\n"}
               IN IF nl = {} THEN 0 ELSE Max(nl) + 1

\* re.search of a heading pattern: leftmost start, lazy group 1 up to the
\* first position where the lookahead holds
NoMatch == [found |-> FALSE, group1 |-> <<>>]

HeaderSearch(t, title) ==
  LET starts == {s \in 1..Len(t) : HeaderAt(t, s, title) # 0}
  IN IF starts = {} THEN NoMatch
     ELSE LET cs == HeaderAt(t, Min(starts), title)
              e == Min({p \in cs..(Len(t) + 1) : Lookahead(t, p, title)})
          IN [found |-> TRUE, group1 |-> SubSeq(t, cs, e - 1)]

\* re.search(r"##\s*Tailored Resume\s*\n(.*?)(?=\n##|$)", t, DOTALL|IGNORECASE)
resume_match(t) == HeaderSearch(t, "Tailored Resume")

\* re.search(r"##\s*Cover Letter\s*\n(.*?)(?=$)", t, DOTALL|IGNORECASE)
cover_match(t) == HeaderSearch(t, "Cover Letter")

IsFenceAt(t, i) == i + 2 <= Len(t) /\ t[i] = BT /\ t[i+1] = BT /\ t[i+2] = BT

\* the prefix BT BT BT (?:markdown)?\n tried at position s: index where group 1 starts, or 0
BlockOpenAt(t, s) ==
  IF ~IsFenceAt(t, s) THEN 0
  ELSE IF s + 4 <= Len(t) /\ t[s+3] = "markdown" /\ t[s+4] = "\n" THEN s + 5
  ELSE IF s + 3 <= Len(t) /\ t[s+3] = "\n" THEN s + 4
  ELSE 0

\* the closing fence of the block whose group 1 starts at cs, or 0
BlockCloseFrom(t, cs) ==
  LET cl == {e \in cs..Len(t) : IsFenceAt(t, e)}
  IN IF cl = {} THEN 0 ELSE Min(cl)

\* re.findall of the fenced block pattern (line 97) from position pos
RECURSIVE FindAllFrom(_, _)
FindAllFrom(t, pos) ==
  LET starts == {s \in pos..Len(t) :
                   BlockOpenAt(t, s) # 0 /\ BlockCloseFrom(t, BlockOpenAt(t, s)) # 0}
  IN IF starts = {} THEN <<>>
     ELSE LET cs == BlockOpenAt(t, Min(starts))
              e == BlockCloseFrom(t, cs)
          IN <<SubSeq(t, cs, e - 1)>> \o FindAllFrom(t, e + 3)

code_blocks(t) == FindAllFrom(t, 1)

\* ------------------------------------------------- manual_save_fallback
FirstPassNoTrim(t) ==
  LET m == resume_match(t)
      blocks == code_blocks(t)
  IN IF m.found
     THEN [resume_content |-> Strip(m.group1), cover_letter_content |-> <<>>]
     ELSE [resume_content |-> IF Len(blocks) >= 1 THEN blocks[1] ELSE <<>>,
           cover_letter_content |-> IF Len(blocks) >= 2 THEN blocks[2] ELSE <<>>]

\* lines 91-101: the resume heading, else the fenced code blocks
FirstPass(t) ==
  LET m == resume_match(t)
      blocks == code_blocks(t)
  IN IF m.found
     THEN [resume_content |-> Strip(m.group1), cover_letter_content |-> <<>>]
     ELSE [resume_content |-> IF Len(blocks) >= 1 THEN Strip(blocks[1]) ELSE <<>>,
           cover_letter_content |-> IF Len(blocks) >= 2 THEN Strip(blocks[2]) ELSE <<>>]

SecondPassHeadingFirst(t, r) ==
  LET m == cover_match(t)
  IN IF m.found
     THEN [r EXCEPT !.cover_letter_content = Strip(m.group1)]
     ELSE r

\* lines 103-107: the cover letter heading when the field is still empty
SecondPass(t, r) ==
  LET m == cover_match(t)
  IN IF IsFalsy(r.cover_letter_content) /\ m.found
     THEN [r EXCEPT !.cover_letter_content = Strip(m.group1)]
     ELSE r

LastResortTrimmed(t, r) ==
  IF IsFalsy(r.resume_content) /\ IsFalsy(r.cover_letter_content)
  THEN [r EXCEPT !.resume_content = Strip(t)]
  ELSE r

LastResortNever(t, r) == r

LastResortPerField(t, r) ==
  IF IsFalsy(r.resume_content)
  THEN [r EXCEPT !.resume_content = t]
  ELSE r

\* lines 109-111: the whole text as the resume when both are empty
LastResort(t, r) ==
  IF IsFalsy(r.resume_content) /\ IsFalsy(r.cover_letter_content)
  THEN [r EXCEPT !.resume_content = t]
  ELSE r

manual_save_fallback(t) == LastResort(t, SecondPass(t, FirstPass(t)))

\* ------------------------------------------------------ optimize_career
EmptyOutput == [resume_content |-> <<>>, cover_letter_content |-> <<>>]

\* response.text: None without a text part, else the text parts joined
response_text == [present |-> text_parts # <<>>, value |-> Concat(text_parts)]

HasTextAlways(ft) == TRUE

\* `if full_text:` on an Optional[str]
HasText(ft) == ft.present /\ ~IsFalsy(ft.value)

\* one iteration of the loop over response.function_calls (lines 177-182)
ApplyCall(st, call) ==
  IF call.name = "save_tailored_resume"
  THEN [out |-> [st.out EXCEPT !.resume_content = call.content], found |-> TRUE]
  ELSE IF call.name = "save_cover_letter"
  THEN [out |-> [st.out EXCEPT !.cover_letter_content = call.content], found |-> TRUE]
  ELSE st

RECURSIVE ScanCalls(_, _)
ScanCalls(st, calls) ==
  IF calls = <<>> THEN st ELSE ScanCalls(ApplyCall(st, Head(calls)), Tail(calls))

\* the condition of line 185
NeedsFallback(st) ==
  ~st.found \/ IsFalsy(st.out.resume_content) \/ IsFalsy(st.out.cover_letter_content)

\* lines 190-193
MergeFallback(out, fb) ==
  [resume_content |-> IF IsFalsy(out.resume_content)
                      THEN fb.resume_content ELSE out.resume_content,
   cover_letter_content |-> IF IsFalsy(out.cover_letter_content)
                            THEN fb.cover_letter_content ELSE out.cover_letter_content]

TypeOK ==
  /\ pc \in {"reply", "done", "error"}
  /\ tool_calls_found \in BOOLEAN
  /\ fallback_called \in BOOLEAN
  /\ Len(function_calls) + Len(text_parts) <= MaxParts

Init ==
  /\ function_calls = <<>>
  /\ text_parts = <<>>
  /\ pc = "reply"
  /\ tool_calls_found = FALSE
  /\ fallback_called = FALSE
  /\ fallback_data = EmptyOutput
  /\ final_output = EmptyOutput

\* the model reply gains a function call part
ReplyCall ==
  /\ pc = "reply"
  /\ Len(function_calls) + Len(text_parts) < MaxParts
  /\ \E c \in Calls : function_calls' = Append(function_calls, c)
  /\ UNCHANGED <<text_parts, pc, tool_calls_found, fallback_called,
                 fallback_data, final_output>>

\* the model reply gains a text part
ReplyText ==
  /\ pc = "reply"
  /\ Len(function_calls) + Len(text_parts) < MaxParts
  /\ \E s \in Segments : text_parts' = Append(text_parts, s)
  /\ UNCHANGED <<function_calls, pc, tool_calls_found, fallback_called,
                 fallback_data, final_output>>

\* lines 170-195, with the except clause of line 197
ProcessResponse ==
  /\ pc = "reply"
  /\ LET st == ScanCalls([out |-> EmptyOutput, found |-> FALSE], function_calls)
         full_text == response_text
         run == NeedsFallback(st) /\ HasText(full_text)
     IN /\ tool_calls_found' = st.found
        /\ fallback_called' = run
        /\ IF ~run
           THEN /\ pc' = "done"
                /\ fallback_data' = EmptyOutput
                /\ final_output' = st.out
           ELSE IF ~full_text.present
           THEN \* re.search(pattern, None) raises TypeError
                /\ pc' = "error"
                /\ fallback_data' = EmptyOutput
                /\ final_output' = st.out
           ELSE /\ pc' = "done"
                /\ fallback_data' = manual_save_fallback(full_text.value)
                /\ final_output' = MergeFallback(st.out, fallback_data')
  /\ UNCHANGED <<function_calls, text_parts>>

Next == ReplyCall \/ ReplyText \/ ProcessResponse

Spec == Init /\ [][Next]_vars

\* ------------------------------------------------------------------------
\* Vocabulary of the properties
\* ------------------------------------------------------------------------
ResumeTool == "save_tailored_resume"
CoverTool == "save_cover_letter"

\* the reply text as one string
reply_text == Concat(text_parts)

\* the `content` values of the invocations of one tool
CallContents(name) ==
  {function_calls[i].content : i \in {k \in 1..Len(function_calls) : function_calls[k].name = name}}

NoCalls == function_calls = <<>>

\* `##`, optional whitespace, the title (any case): a heading written in the text
HeadingStarts(t, title) ==
  {s \in 1..(Len(t) - 2) : /\ t[s] = "#" /\ t[s+1] = "#"
                           /\ SkipSpace(t, s + 2) <= Len(t)
                           /\ Lower(t[SkipSpace(t, s + 2)]) = Lower(title)}

HasHeading(t, title) == HeadingStarts(t, title) # {}

\* a heading whose line is ended by a newline
HeadingLineStarts(t, title) ==
  {s \in HeadingStarts(t, title) :
     LET j == SkipSpace(t, s + 2)
     IN \E m \in (j+1)..(SkipSpace(t, j + 1) - 1) : t[m] = "\n"}

HasHeadingLine(t, title) == HeadingLineStarts(t, title) # {}

\* index of the title word of the first heading line
TitleIndex(t, title) == SkipSpace(t, Min(HeadingLineStarts(t, title)) + 2)

\* positions of the backquotes, and the n-th of them
Backquotes(t) == {i \in 1..Len(t) : t[i] = BT}
NthBackquote(t, n) ==
  CHOOSE i \in Backquotes(t) : Cardinality({j \in Backquotes(t) : j <= i}) = n

\* three backquotes starting at the n-th backquote
FenceAtNth(t, n) ==
  /\ NthBackquote(t, n + 1) = NthBackquote(t, n) + 1
  /\ NthBackquote(t, n + 2) = NthBackquote(t, n) + 2

\* length of the tag line after an opening fence at i (0 when it is none):
\* a newline, or `markdown` and a newline
TagLine(t, i) ==
  IF i + 3 <= Len(t) /\ t[i+3] = "\n" THEN 1
  ELSE IF i + 4 <= Len(t) /\ t[i+3] = "markdown" /\ t[i+4] = "\n" THEN 2
  ELSE 0

\* the text is prose, b fenced blocks (each opened by a tag line and closed
\* by a fence, no backquote inside or outside), prose between them
BlockForm(t, b) ==
  /\ Cardinality(Backquotes(t)) = 6 * b
  /\ \A k \in 0..(b - 1) :
       /\ FenceAtNth(t, 6 * k + 1) /\ FenceAtNth(t, 6 * k + 4)
       /\ TagLine(t, NthBackquote(t, 6 * k + 1)) # 0

\* contents of block k (1-based) of a text in block form
BlockBody(t, k) ==
  LET o == NthBackquote(t, 6 * (k - 1) + 1)
  IN SubSeq(t, o + 3 + TagLine(t, o), NthBackquote(t, 6 * (k - 1) + 4) - 1)

\* a complete fenced code block somewhere in the text
HasFencedBlock(t) ==
  \E i \in 1..Len(t) : /\ IsFenceAt(t, i) /\ TagLine(t, i) # 0
                        /\ \E j \in (i + 3 + TagLine(t, i))..Len(t) : IsFenceAt(t, j)

NoHeadings(t) == ~HasHeading(t, "Tailored Resume") /\ ~HasHeading(t, "Cover Letter")

PlainProse(t) == NoHeadings(t) /\ ~HasFencedBlock(t)

Blank(s) == \A i \in 1..Len(s) : IsSpace(s[i])

\* ------------------------------------------------------------------------
\* Properties
\* ------------------------------------------------------------------------
StringFields ==
  [resume_content : Seq(Tokens), cover_letter_content : Seq(Tokens)]

\* C1: processing a reply never ends in an error, and the value returned
\* holds both resume_content and cover_letter_content, each a string
C1_Totality ==
  /\ pc # "error"
  /\ pc = "done" => final_output \in StringFields

\* C1 witness: a reply with tool invocations that leave a field empty and
\* with no text at all has been processed
C1_Witness ==
  /\ pc = "done" /\ tool_calls_found /\ text_parts = <<>>
  /\ final_output.resume_content = <<>>
  /\ final_output.cover_letter_content # <<>>

\* C2: with invocations of both tools and a reply text present, the result
\* is the content of a save_tailored_resume invocation and the content of
\* a save_cover_letter invocation
C2_BothInvocationsVerbatim ==
  (/\ pc = "done" /\ text_parts # <<>>
   /\ CallContents(ResumeTool) # {} /\ CallContents(CoverTool) # {})
  => /\ final_output.resume_content \in CallContents(ResumeTool)
     /\ final_output.cover_letter_content \in CallContents(CoverTool)

\* C5: a non-empty reply text without heading and without fenced block, and
\* no tool invocation: resume_content is the text itself, untrimmed, and
\* cover_letter_content is empty
C5_LastResort ==
  (pc = "done" /\ NoCalls /\ text_parts # <<>>) =>
    LET t == reply_text
    IN PlainProse(t) => final_output = [resume_content |-> t, cover_letter_content |-> <<>>]

\* C5 witness: such a text, with whitespace that trimming would remove
C5_Witness ==
  /\ pc = "done" /\ NoCalls /\ text_parts # <<>> /\ PlainProse(reply_text)
  /\ Strip(reply_text) # reply_text /\ Strip(reply_text) # <<>>
  /\ final_output.resume_content = reply_text

\* C7: a field for which a tool invocation was observed holds the content
\* of such an invocation, whatever the reply text contains
C7_StructuredNotOverwritten ==
  pc = "done" =>
    /\ CallContents(ResumeTool) # {} =>
         final_output.resume_content \in CallContents(ResumeTool)
    /\ CallContents(CoverTool) # {} =>
         final_output.cover_letter_content \in CallContents(CoverTool)

\* positions where two `#` follow each other
HashPairs(t) == {i \in 1..(Len(t) - 1) : t[i] = "#" /\ t[i+1] = "#"}

\* the text is the line `## Tailored Resume`, a body of whole lines, the
\* line `## Cover Letter` and a body, no body holding a `##`
SectionForm(t) ==
  /\ Len(t) >= 10 /\ SubSeq(t, 1, 5) = HdrTR
  /\ Cardinality(HashPairs(t)) = 2
  /\ LET i == Max(HashPairs(t))
     IN /\ i >= 6 /\ i + 4 <= Len(t) /\ SubSeq(t, i, i + 4) = HdrCL
        /\ t[i-1] = "\n"

SectionR(t) == SubSeq(t, 6, Max(HashPairs(t)) - 1)
SectionC(t) == SubSeq(t, Max(HashPairs(t)) + 5, Len(t))

\* C3: for a text of the section form and no tool invocation,
\* manual_save_fallback returns the two bodies, each trimmed
C3_SectionHeaders ==
  (pc = "done" /\ NoCalls) =>
    LET t == reply_text
    IN SectionForm(t)
       => /\ fallback_called
          /\ fallback_data = [resume_content |-> Strip(SectionR(t)),
                              cover_letter_content |-> Strip(SectionC(t))]

\* the result the fenced blocks of a text in block form stand for
BlockResult(t, b) ==
  [resume_content |-> Strip(BlockBody(t, 1)),
   cover_letter_content |-> IF b = 2 THEN Strip(BlockBody(t, 2)) ELSE <<>>]

\* C4 as stated: without headings, two fenced blocks give the trimmed first
\* block as resume_content and the trimmed second as cover_letter_content,
\* one block gives resume_content only
C4_Original ==
  (pc = "done" /\ NoCalls /\ fallback_called) =>
    LET t == reply_text
    IN \A b \in {1, 2} :
         (BlockForm(t, b) /\ NoHeadings(t)) => fallback_data = BlockResult(t, b)

\* C4 amended: the blocks are returned that way when at least one of them
\* is not blank; when every block is blank, resume_content is the whole
\* text and cover_letter_content is empty
C4_FencedBlocks ==
  (pc = "done" /\ NoCalls /\ fallback_called) =>
    LET t == reply_text
    IN \A b \in {1, 2} :
         (BlockForm(t, b) /\ NoHeadings(t))
         => fallback_data =
              IF BlockResult(t, b) = EmptyOutput
              THEN [resume_content |-> t, cover_letter_content |-> <<>>]
              ELSE BlockResult(t, b)

\* C4 witness: two blocks, the second one filling cover_letter_content
C4_Witness ==
  /\ pc = "done" /\ fallback_called /\ NoCalls
  /\ fallback_data.cover_letter_content = <<"x">>
  /\ final_output = fallback_data
  /\ BlockForm(reply_text, 2) /\ NoHeadings(reply_text)

\* the resume_content manual_save_fallback returned
Extracted == fallback_data.resume_content

\* C6 as stated: extraction run again on an extracted resume_content that
\* holds no section heading returns it unchanged
C6_Original ==
  (pc = "done" /\ NoCalls /\ fallback_called /\ NoHeadings(Extracted))
  => manual_save_fallback(Extracted).resume_content = Extracted

\* C6 amended: ... that holds no section heading and no fenced code block
C6_Idempotence ==
  (pc = "done" /\ NoCalls /\ fallback_called /\ NoHeadings(Extracted) /\ ~HasFencedBlock(Extracted))
  => manual_save_fallback(Extracted).resume_content = Extracted

\* C6 witness: a resume_content taken from under a heading or out of a
\* fenced block, shorter than the text
C6_Witness ==
  /\ pc = "done" /\ NoCalls /\ fallback_called
  /\ Extracted # <<>> /\ Extracted # reply_text
  /\ NoHeadings(Extracted) /\ ~HasFencedBlock(Extracted)

\* number of `#` that follow each other from position q on
HashRun(t, q) ==
  IF q > Len(t) THEN 0
  ELSE Min({n \in 0..(Len(t) - q + 1) : q + n > Len(t) \/ t[q + n] # "#"})

\* level of the heading that starts at position q (0 when there is none):
\* a run of `#` followed by whitespace or by the end of the text
HeadingLevel(t, q) ==
  LET n == HashRun(t, q)
  IN IF n >= 1 /\ (q + n > Len(t) \/ IsSpace(t[q + n])) THEN n ELSE 0

\* the end of the section whose title word is at j: the newline before the
\* next heading of level 1 or 2, or the end of the text
SectionEnd(t, j) ==
  Min({p \in (j+1)..(Len(t) + 1) :
         p = Len(t) + 1 \/ (t[p] = "\n" /\ HeadingLevel(t, p + 1) \in {1, 2})})

\* the first `## Tailored Resume` heading line is followed at once by a
\* line of content that is no heading
SectionStartsWithContent(t) ==
  /\ HasHeadingLine(t, "Tailored Resume")
  /\ LET j == TitleIndex(t, "Tailored Resume")
     IN /\ j + 2 <= Len(t) /\ t[j+1] = "\n"
        /\ ~IsSpace(t[j+2]) /\ t[j+2] # "#"

\* C8: with a `## Tailored Resume` heading line (here: one followed by a
\* line of content), the captured resume_content is the trimmed text from
\* that line to the next heading of level 1 or 2, or to the end of the
\* text; a heading of level 3 or deeper does not end it
C8_SectionBoundary ==
  (pc = "done" /\ NoCalls) =>
    LET t == reply_text
        j == TitleIndex(t, "Tailored Resume")
    IN SectionStartsWithContent(t)
       => /\ fallback_called
          /\ fallback_data.resume_content = Strip(SubSeq(t, j + 1, SectionEnd(t, j) - 1))

\* resume_content of the result is the whole reply text, and no tool
\* invocation supplied that very string
WholeTextAsResume ==
  /\ pc = "done" /\ text_parts # <<>>
  /\ final_output.resume_content = reply_text
  /\ final_output.resume_content \notin CallContents(ResumeTool)

\* what the headings and fenced blocks of the text give, before the last
\* resort
TextPaths(t) == SecondPass(t, FirstPass(t))

\* C9 as stated: resume_content is the whole text only when no earlier
\* path (tool invocation, heading, fenced block) filled either field;
\* stated for replies whose tool invocations all carry a non-empty content
C9_Original ==
  (WholeTextAsResume
   /\ \A i \in 1..Len(function_calls) : function_calls[i].content # <<>>)
  => (/\ CallContents(ResumeTool) = {} /\ CallContents(CoverTool) = {}
      /\ TextPaths(reply_text) = EmptyOutput)

\* no invocation of the tool, or the last one with an empty content
LastCallEmpty(name) ==
  LET idx == {i \in 1..Len(function_calls) : function_calls[i].name = name}
  IN idx = {} \/ function_calls[Max(idx)].content = <<>>

\* C9 amended: resume_content is the whole text only when the headings and
\* fenced blocks of the text filled neither field and no tool invocation
\* left a non-empty resume_content; a cover letter filled by a tool
\* invocation does not prevent it: with a non-empty save_cover_letter
\* content, no save_tailored_resume invocation and plain prose as text,
\* resume_content is the whole text
C9_LastResortScope ==
  /\ WholeTextAsResume =>
       /\ TextPaths(reply_text) = EmptyOutput
       /\ LastCallEmpty(ResumeTool)
  /\ (/\ pc = "done" /\ text_parts # <<>>
      /\ CallContents(ResumeTool) = {} /\ CallContents(CoverTool) = {<<"x">>}
      /\ PlainProse(reply_text))
     => final_output = [resume_content |-> reply_text,
                        cover_letter_content |-> <<"x">>]

\* C9 witness: a cover letter from a tool invocation, prose as text
C9_Witness ==
  /\ pc = "done" /\ WholeTextAsResume /\ tool_calls_found
  /\ final_output.cover_letter_content = <<"x">>
  /\ CallContents(ResumeTool) = {} /\ PlainProse(reply_text)

\* the trimmed text under the first `## Cover Letter` heading line
UnderCover(t) == Strip(SubSeq(t, TitleIndex(t, "Cover Letter") + 1, Len(t)))

\* C10 as stated: with a `## Cover Letter` heading line in the text,
\* cover_letter_content is the trimmed text under it
C10_Original ==
  (pc = "done" /\ NoCalls /\ fallback_called) =>
    LET t == reply_text
    IN HasHeadingLine(t, "Cover Letter")
       => fallback_data.cover_letter_content = UnderCover(t)

\* the second fenced block wins over the heading
SecondBlockWins(t) ==
  /\ ~HasHeadingLine(t, "Tailored Resume")
  /\ Len(code_blocks(t)) >= 2 /\ ~Blank(code_blocks(t)[2])

\* C10 amended: the resume heading is tried first, the fenced blocks only
\* without it, and the cover letter heading only when the fenced blocks
\* left cover_letter_content empty: with a `## Cover Letter` heading line,
\* cover_letter_content is the trimmed second fenced block when the text
\* has no resume heading line and a second block that is not blank, and
\* the trimmed text under the heading otherwise
C10_StrategyPriority ==
  (pc = "done" /\ NoCalls /\ fallback_called) =>
    LET t == reply_text
    IN HasHeadingLine(t, "Cover Letter")
       => fallback_data.cover_letter_content =
            IF SecondBlockWins(t) THEN Strip(code_blocks(t)[2]) ELSE UnderCover(t)

\* C10 witness: a cover letter heading and two fenced blocks, no resume
\* heading
C10_Witness ==
  /\ pc = "done" /\ NoCalls /\ fallback_called
  /\ HasHeadingLine(reply_text, "Cover Letter")
  /\ SecondBlockWins(reply_text)
  /\ fallback_data.cover_letter_content # UnderCover(reply_text)

====
